---- MODULE Spec2Model ----
(***************************************************************************)
(* A model of the Mixture-of-Experts orchestrator (src/orchestrator.py):   *)
(* the router process_query, the selection and confidence scoring, the     *)
(* bounded request history, the fan-out process_multi_agent_query and the  *)
(* statistics view get_orchestrator_stats; and of the WebSocket endpoint   *)
(* of src/chatbot_interface.py with its connection manager.                *)
(*                                                                         *)
(* The agents (the package `agents`) are external to the orchestrator:     *)
(* can_handle, get_capabilities and process_request are environment        *)
(* choices (return a value or raise).                                      *)
(*                                                                         *)
(* Text is a sequence of one-character strings, so that lower(), split()   *)
(* and the substring test `word in query_lower` are computed as Python     *)
(* computes them.  A Python float is the pair [tenth, ulps]: the double    *)
(* nearest to tenth/10 plus ulps * 2^-53, which is exact for every value   *)
(* the confidence arithmetic produces.                                     *)
(***************************************************************************)
EXTENDS Integers, Sequences, FiniteSets, TLC

\* ------------------------------------------------------------------ state

\* The process_query calls that can be in progress at once.
Tasks == {1, 2}

VARIABLES
  request_history,  \* self.request_history
  clock,            \* appends so far: the clock the timestamps read
  pq,               \* per task: the process_query call it runs, if any
  mq,               \* the process_multi_agent_query call in progress, if any
  last,             \* what the step just taken did (its locals and its result)
  ncalls,           \* process_query and process_multi_agent_query calls started
  active_connections,  \* manager.active_connections (src/chatbot_interface.py)
  handler           \* per WebSocket connection: where its websocket_endpoint is

vars == <<request_history, clock, pq, mq, last, ncalls, active_connections, handler>>

\* ------------------------------------------------------------------ bounds

\* process_query and process_multi_agent_query calls started in one behaviour.
MaxCalls == 2
\* Agents that do anything but decline (can_handle false) in one evaluation
\* of the registry by the router or the fan-out.
MaxEngaged == 2
\* Longest sampled ledger of the selection specification.
MaxSample == 1
\* Records missing from a full ledger in the initial states of SpecFull.
MaxHeadroom == 1
\* Records beyond the ten that recent_activity shows, in the longest sampled
\* ledger of the statistics specification.
MaxExtra == 2
\* WebSocket connections opened in one behaviour.
MaxConnections == 2
\* Frames one WebSocket connection receives.
MaxFrames == 2

\* ------------------------------------------------------------------- text

Min(a, b) == IF a < b THEN a ELSE b

\* str.lower() on one character (the upper-case letters the model uses).
LowerChar(c) ==
  CASE c = "C" -> "c"
    [] c = "F" -> "f"
    [] c = "S" -> "s"
    [] c = "T" -> "t"
    [] c = "B" -> "b"
    [] c = "R" -> "r"
    [] c = "P" -> "p"
    [] OTHER -> c

\* str.lower()
Lower(s) == [i \in 1..Len(s) |-> LowerChar(s[i])]

\* `w in s` on strings: w occurs in s as a contiguous substring.
IsSubstr(w, s) ==
  \E i \in 0..(Len(s) - Len(w)) : \A j \in 1..Len(w) : s[i + j] = w[j]

\* str.split(): the maximal runs of non-space characters, in order.
RECURSIVE SplitFrom(_, _, _)
SplitFrom(s, i, word) ==
  IF i > Len(s)
    THEN IF word = <<>> THEN <<>> ELSE <<word>>
    ELSE IF s[i] = " "
           THEN (IF word = <<>> THEN <<>> ELSE <<word>>) \o SplitFrom(s, i + 1, <<>>)
           ELSE SplitFrom(s, i + 1, Append(word, s[i]))

Split(s) == SplitFrom(s, 1, <<>>)

\* query[:100]
EXCERPT_LEN == 100
Excerpt(q) == SubSeq(q, 1, Min(Len(q), EXCERPT_LEN))

\* ----------------------------------------------------------------- floats

Float(t, u) == [tenth |-> t, ulps |-> u]

\* a < b on the doubles a and b (|ulps| * 2^-53 is far below 1/10).
FloatLess(a, b) ==
  \/ a.tenth < b.tenth
  \/ a.tenth = b.tenth /\ a.ulps < b.ulps

\* IEEE-754 double x + k/10 for the operands the scoring produces: the sum
\* is the double nearest k'/10 except where rounding leaves it short.
FloatAdd(x, k) ==
  CASE x = Float(7, 0) /\ k = 1 -> Float(8, -1)
    [] x = Float(7, 0) /\ k = 2 -> Float(9, -1)
    [] x = Float(9, -1) /\ k = 1 -> Float(10, -1)
    [] x = Float(9, -1) /\ k = 2 -> Float(11, -2)
    [] x = Float(11, -2) /\ k = 1 -> Float(12, 0)
    [] OTHER -> Float(x.tenth + k, 0)

\* min(a, b) on doubles
FloatMin(a, b) == IF FloatLess(b, a) THEN b ELSE a


\* ----------------------------------------------------------------- agents

\* self.agents: the registry, in insertion (registration) order.
AgentKeys ==
  <<"financial_summary", "transaction_categorizer", "cash_flow_analyzer",
    "account_reconciler">>

AgentSet == {AgentKeys[i] : i \in 1..Len(AgentKeys)}

\* `None` where an agent is expected.
NoAgent == "None"

\* agent.name of the agent registered under key k.
AgentName(k) == k

\* agent.get_capabilities() of the agent registered under key k.
Capabilities(k) ==
  CASE k = "financial_summary" ->
         << <<"F", "i", "n", " ", "S", "u", "m">>,
            <<"P", "n", "l">>,
            <<"B", "a", "l">>,
            <<"R", "e", "v">> >>
    [] k = "transaction_categorizer" ->
         << <<"T", "x", "n", " ", "C", "a", "t">> >>
    [] k = "cash_flow_analyzer" ->
         << <<"C", "a", "s", "h", " ", "F", "l", "o", "w">>,
            <<"F", "i", "n", " ", "P", "l", "a", "n">> >>
    [] k = "account_reconciler" ->
         << <<"R", "e", "c">> >>

\* What an agent does when the orchestrator evaluates it: can_handle returns
\* true or false or raises, or can_handle returns true and get_capabilities
\* raises while the agent is scored.
Outcomes == {"true", "false", "raise", "caps_raise"}

\* -------------------------------------------------------------- arguments

NoText == <<"<", "N", "o", "n", "e", ">">>

\* The optional context mapping: None, or a dict that may hold the two keys
\* the scoring reads.
NoneContext ==
  [none |-> TRUE, has_analysis |-> FALSE, analysis_type |-> NoText,
   has_report |-> FALSE, report_type |-> NoText]

EmptyContext == [NoneContext EXCEPT !.none = FALSE]

AnalysisContext(v) ==
  [EmptyContext EXCEPT !.has_analysis = TRUE, !.analysis_type = v]

ReportContext(v) ==
  [EmptyContext EXCEPT !.has_report = TRUE, !.report_type = v]

BothContext(v, w) ==
  [AnalysisContext(v) EXCEPT !.has_report = TRUE, !.report_type = w]

\* `if context:`: neither None nor an empty dict.
Truthy(context) ==
  ~context.none /\ (context.has_analysis \/ context.has_report)

QEmpty == <<>>
QFin == <<"F", "I", "N">>
QFinPnl == <<"f", "i", "n", " ", "p", "n", "l">>
QAll == <<"f", "i", "n", " ", "s", "u", "m", " ", "p", "n", "l", " ", "b", "a", "l", " ", "r", "e", "v">>
QLong == <<"r", "e", "c">> \o [i \in 1..EXCERPT_LEN |-> "x"]

Queries == {QEmpty, QFin, QFinPnl, QAll, QLong}

Contexts ==
  { NoneContext, EmptyContext,
    AnalysisContext(<<"f", "i", "n", " ", "s", "u", "m">>),
    ReportContext(<<"F", "i", "n", " ", "S", "u", "m">>),
    BothContext(<<"f", "i", "n", " ", "s", "u", "m">>, <<"p", "n", "l">>) }

\* The argument tuples of the sampled process_query calls.
Request(q, c, u, s) == [query |-> q, context |-> c, user_id |-> u, session_id |-> s]

Inputs ==
  { Request(QFinPnl, AnalysisContext(<<"f", "i", "n", " ", "s", "u", "m">>), "u2", "None"),
    Request(QLong, NoneContext, "u1", "s2") }

SelectInputs == {Request(q, c, "None", "None") : q \in Queries, c \in Contexts}

\* ---------------------------------------------------------------- scoring

Rate(n, d) == [num |-> n, den |-> d]

\* Faulty variant of RateGreater: `>=` for `>`.
RateGreater_OrEqual(a, b) == a.num * b.den >= b.num * a.den

\* a > b on the rationals a and b: the float quotient successes/total and
\* the literals 0.5 and 0.8 compare as the exact fractions do for every
\* total up to the ledger bound.
RateGreater(a, b) == a.num * b.den > b.num * a.den

\* agent_history: the positions of the ledger's records of one agent.
AgentHistory(history, agent_name) ==
  {i \in 1..Len(history) : history[i].agent = agent_name}

\* sum(1 for req in agent_history if req["success"])
Successes(history, agent_name) ==
  Cardinality({i \in AgentHistory(history, agent_name) : history[i].success})

\* Faulty variant of GetHistoricalPerformance: an agent that is processing
\* another call's request is credited with that call as a success.
GetHistoricalPerformance_Optimistic(agent_name, history) ==
  LET agent_history == AgentHistory(history, agent_name)
      pending == Cardinality({t \in Tasks : /\ pq[t].pc = "awaiting"
                                            /\ AgentName(pq[t].selected) = agent_name})
  IN  IF pending = 0 /\ (history = <<>> \/ agent_history = {}) THEN Rate(1, 2)
      ELSE Rate(Successes(history, agent_name) + pending,
                Cardinality(agent_history) + pending)

\* _get_historical_performance
GetHistoricalPerformance(agent_name, history) ==
  LET agent_history == AgentHistory(history, agent_name)
  IN  IF history = <<>> THEN Rate(1, 2)
      ELSE IF agent_history = {} THEN Rate(1, 2)
      ELSE Rate(Successes(history, agent_name), Cardinality(agent_history))

\* Faulty variant of CountKeywordMatches: a tag counts only when the whole
\* tag occurs in the query.
CountKeywordMatches_WholeTag(k, query) ==
  LET query_lower == Lower(query)
      caps == [i \in 1..Len(Capabilities(k)) |-> Lower(Capabilities(k)[i])]
  IN  Cardinality({ i \in 1..Len(caps) : IsSubstr(caps[i], query_lower) })

\* keyword_matches: the capability tags with a word that occurs in the query.
CountKeywordMatches(k, query) ==
  LET query_lower == Lower(query)
      caps == [i \in 1..Len(Capabilities(k)) |-> Lower(Capabilities(k)[i])]
  IN  Cardinality({ i \in 1..Len(caps) :
        \E j \in 1..Len(Split(caps[i])) : IsSubstr(Split(caps[i])[j], query_lower) })

\* keyword_matches of every agent on every sampled query, computed once.
KeywordTable == [k \in AgentSet |-> [q \in Queries |-> CountKeywordMatches(k, q)]]

KeywordMatches(k, query) == KeywordTable[k][query]

\* agent_capabilities: the capability tags lower-cased, computed once.
LowerCapabilities ==
  [k \in AgentSet |-> {Lower(Capabilities(k)[i]) : i \in 1..Len(Capabilities(k))}]

\* `value in agent_capabilities`
InCapabilities(k, value) == value \in LowerCapabilities[k]

\* Faulty variant of CapConfidence: the sum is returned uncapped.
CapConfidence_None(c) == c

\* The final `return min(1.0, confidence)`.
CapConfidence(c) == FloatMin(Float(10, 0), c)

\* _calculate_agent_confidence
CalculateAgentConfidence(k, query, context, history) ==
  LET base == Float(5, 0)
      m == KeywordMatches(k, query)
      kw == IF m > 0 THEN FloatAdd(base, Min(3, m)) ELSE base
      c1 == IF /\ Truthy(context)
               /\ context.has_analysis
               /\ InCapabilities(k, context.analysis_type)
              THEN FloatAdd(kw, 2) ELSE kw
      c2 == IF /\ Truthy(context)
               /\ context.has_report
               /\ InCapabilities(k, context.report_type)
              THEN FloatAdd(c1, 2) ELSE c1
      h == IF RateGreater(GetHistoricalPerformance(AgentName(k), history), Rate(8, 10))
              THEN FloatAdd(c2, 1) ELSE c2
  IN  CapConfidence(h)

Score(c, b) == [confidence |-> c, can_handle |-> b]

\* Faulty variant of ScoreAgent: the agent is scored whatever can_handle did.
ScoreAgent_NoGate(k, outcome, query, context, history) ==
  Score(CalculateAgentConfidence(k, query, context, history), TRUE)

\* Faulty variant of ScoreAgent: the handler of a raising can_handle records
\* the agent with the base confidence, as admissible.
ScoreAgent_RaiseAdmitted(k, outcome, query, context, history) ==
  IF outcome = "true"
    THEN Score(CalculateAgentConfidence(k, query, context, history), TRUE)
    ELSE IF outcome = "raise" THEN Score(Float(5, 0), TRUE)
    ELSE Score(Float(0, 0), FALSE)

\* One pass of the scoring loop of _select_best_agent: the agent_scores entry
\* of agent k, whose evaluation went as `outcome` says.
ScoreAgent(k, outcome, query, context, history) ==
  IF outcome = "true"
    THEN Score(CalculateAgentConfidence(k, query, context, history), TRUE)
    ELSE Score(Float(0, 0), FALSE)

\* agent_scores
AgentScores(query, context, history, ans) ==
  [k \in AgentSet |-> ScoreAgent(k, ans[k], query, context, history)]

\* Faulty variant of Better: `>=` for `>`, so that the last of the tied wins.
Better_OrEqual(s, best_confidence) ==
  s.can_handle /\ ~FloatLess(s.confidence, best_confidence)

\* Whether the selection loop replaces the best agent so far by one scored s.
Better(s, best_confidence) ==
  s.can_handle /\ FloatLess(best_confidence, s.confidence)

\* The selection loop of _select_best_agent from the i-th registered agent on.
RECURSIVE BestFrom(_, _, _, _)
BestFrom(scores, i, best_agent, best_confidence) ==
  IF i > Len(AgentKeys) THEN best_agent
  ELSE IF Better(scores[AgentKeys[i]], best_confidence)
         THEN BestFrom(scores, i + 1, AgentKeys[i], scores[AgentKeys[i]].confidence)
         ELSE BestFrom(scores, i + 1, best_agent, best_confidence)

\* Faulty variant of BestAgent: an agent that is processing another call's
\* request is passed over.
BestAgent_SkipBusy(scores) ==
  BestFrom([k \in AgentSet |->
              IF \E t \in Tasks : pq[t].pc = "awaiting" /\ pq[t].selected = k
                THEN Score(Float(0, 0), FALSE) ELSE scores[k]],
           1, NoAgent, Float(0, 0))

\* Faulty variant of BestAgent: the loop starts from the base confidence, so
\* an agent scored exactly 0.5 is never selected.
BestAgent_AboveBase(scores) == BestFrom(scores, 1, NoAgent, Float(5, 0))

\* best_agent of the selection loop: the key of the selected agent, or NoAgent.
BestAgent(scores) == BestFrom(scores, 1, NoAgent, Float(0, 0))

\* _select_best_agent: agent_scores and the agent returned.
SelectBestAgent(query, context, history, ans) ==
  LET scores == AgentScores(query, context, history, ans)
  IN  [scores |-> scores, selected |-> BestAgent(scores)]


\* ---------------------------------------------------------------- history

\* `if len(self.request_history) > 1000`
MAX_HISTORY == 1000

\* Faulty variant of HistoryRecord: the whole query is stored.
HistoryRecord_WholeQuery(query, agent_name, success, ts) ==
  [query |-> query, agent |-> agent_name, success |-> success, timestamp |-> ts]

\* The record _log_request appends; timestamp (datetime.now()) is the reading
\* of a clock that ticks once per append.
HistoryRecord(query, agent_name, success, ts) ==
  [query |-> Excerpt(query), agent |-> agent_name, success |-> success,
   timestamp |-> ts]

\* Faulty variant of KeepLast: the slice [:1000], which keeps the oldest records.
KeepLast_First(history) == SubSeq(history, 1, MAX_HISTORY)

\* self.request_history[-1000:]
KeepLast(history) ==
  SubSeq(history, Len(history) - MAX_HISTORY + 1, Len(history))

\* Faulty variant of LogRequest: the append without the trim.
LogRequest_NoTrim(history, query, agent_name, success, ts) ==
  Append(history, HistoryRecord(query, agent_name, success, ts))

\* Faulty variant of LogRequest: the trim is deferred to the next append, so
\* the history holds 1001 records between two appends.
LogRequest_LateTrim(history, query, agent_name, success, ts) ==
  LET trimmed == IF Len(history) > MAX_HISTORY THEN KeepLast(history) ELSE history
  IN  Append(trimmed, HistoryRecord(query, agent_name, success, ts))

\* _log_request: the history after the append and the trim.
LogRequest(history, query, agent_name, success, ts) ==
  LET appended == Append(history, HistoryRecord(query, agent_name, success, ts))
  IN  IF Len(appended) > MAX_HISTORY THEN KeepLast(appended) ELSE appended

\* -------------------------------------------------------------- responses

ORCHESTRATOR == "MoEOrchestrator"

\* str(e) of the exception a call of `site` raises.
ErrorText(site) == <<site, "raised">>

NoMeta ==
  [selected_agent |-> NoAgent, agent_capabilities |-> <<>>,
   routing_confidence |-> Float(0, 0)]

\* An agent's payload: None, or a dict with the entries named.
AgentData(is_none, keys) ==
  [kind |-> "agent", none |-> is_none, entries |-> keys, has_meta |-> FALSE,
   orchestrator_metadata |-> NoMeta]

\* A payload in which the agent itself put an entry under the key
\* "orchestrator_metadata".
OwnMetadata ==
  [selected_agent |-> "agent's own entry", agent_capabilities |-> <<>>,
   routing_confidence |-> Float(0, 0)]

AgentDataWithMetadata(keys) ==
  [AgentData(FALSE, keys) EXCEPT !.has_meta = TRUE, !.orchestrator_metadata = OwnMetadata]

AgentDatas ==
  {AgentData(TRUE, {}), AgentData(FALSE, {"result"}), AgentDataWithMetadata({"result"})}

\* agent_type of the responses the agent registered under k builds.
AgentType(k) == <<"agent", k>>

\* The AgentResponse process_request of agent k returns.
AgentResponse(k, success, data) ==
  [success |-> success, message |-> <<"answer of", k>>, agent_type |-> AgentType(k),
   data |-> data, timestamp |-> <<"agent clock", k>>]

\* Faulty variant of CreateFallbackResponse: the fallback reported as a success.
CreateFallbackResponse_Success ==
  [success |-> TRUE, message |-> <<"no suitable agent">>, agent_type |-> ORCHESTRATOR,
   data |-> [kind |-> "fallback", available_agents |-> AgentKeys,
             agent_capabilities |-> [k \in AgentSet |-> Capabilities(k)]],
   timestamp |-> <<"orchestrator clock">>]

\* Faulty variant of CreateFallbackResponse: sorted(self.agents) for
\* list(self.agents.keys()), which loses the registration order.
CreateFallbackResponse_Sorted ==
  [success |-> FALSE, message |-> <<"no suitable agent">>, agent_type |-> ORCHESTRATOR,
   data |-> [kind |-> "fallback",
             available_agents |->
               <<"account_reconciler", "cash_flow_analyzer", "financial_summary",
                 "transaction_categorizer">>,
             agent_capabilities |-> [k \in AgentSet |-> Capabilities(k)]],
   timestamp |-> <<"orchestrator clock">>]

\* _create_fallback_response
CreateFallbackResponse ==
  [success |-> FALSE, message |-> <<"no suitable agent">>, agent_type |-> ORCHESTRATOR,
   data |-> [kind |-> "fallback", available_agents |-> AgentKeys,
             agent_capabilities |-> [k \in AgentSet |-> Capabilities(k)]],
   timestamp |-> <<"orchestrator clock">>]

\* Faulty variant of CreateErrorResponse: the error text is left out of data.
CreateErrorResponse_NoText(error_message) ==
  [success |-> FALSE, message |-> <<"An error occurred">> \o error_message,
   agent_type |-> ORCHESTRATOR,
   data |-> [kind |-> "error", error |-> <<>>],
   timestamp |-> <<"orchestrator clock">>]

\* _create_error_response
CreateErrorResponse(error_message) ==
  [success |-> FALSE, message |-> <<"An error occurred">> \o error_message,
   agent_type |-> ORCHESTRATOR,
   data |-> [kind |-> "error", error |-> error_message],
   timestamp |-> <<"orchestrator clock">>]

\* Faulty variant of CalculateRoutingConfidence: the lower value is the base
\* confidence 0.5.
CalculateRoutingConfidence_Base(handles) ==
  IF handles THEN Float(8, 0) ELSE Float(5, 0)

\* _calculate_routing_confidence, can_handle having returned `handles`.
CalculateRoutingConfidence(handles) ==
  IF handles THEN Float(8, 0) ELSE Float(3, 0)

\* Faulty variant of AddMetadata: data is replaced by a dict holding the
\* metadata alone.
AddMetadata_Replace(response, k, handles) ==
  [response EXCEPT
     !.data = [@ EXCEPT !.none = FALSE, !.entries = {}, !.has_meta = TRUE,
                        !.orchestrator_metadata =
                          [selected_agent |-> AgentName(k),
                           agent_capabilities |-> Capabilities(k),
                           routing_confidence |-> CalculateRoutingConfidence(handles)]]]

\* Lines 89-95: the response with orchestrator_metadata merged into its data.
AddMetadata(response, k, handles) ==
  [response EXCEPT
     !.data = [@ EXCEPT !.none = FALSE, !.has_meta = TRUE,
                        !.orchestrator_metadata =
                          [selected_agent |-> AgentName(k),
                           agent_capabilities |-> Capabilities(k),
                           routing_confidence |-> CalculateRoutingConfidence(handles)]]]

\* ---------------------------------------------------------- initial state

\* The WebSocket connections clients open.
Connections == 1..MaxConnections

\* A connection whose websocket_endpoint has not accepted it yet: the frames
\* it received, the process_query calls it made and the replies it sent.
NewHandler == [pc |-> "accepting", frames |-> 0, calls |-> 0, replies |-> 0]

IdleTask == [pc |-> "idle", request |-> Request(QEmpty, NoneContext, "None", "None"),
             selected |-> NoAgent, admissible |-> FALSE]

IdleMulti == [pc |-> "idle", query |-> QEmpty, context |-> NoneContext,
              relevant |-> <<>>, idx |-> 0, responses |-> <<>>, raised |-> 0,
              outcomes |-> <<>>, ans |-> [k \in AgentSet |-> "false"]]

Nothing == [kind |-> "init"]

\* __init__
Init ==
  /\ request_history = <<>>
  /\ clock = 0
  /\ pq = [t \in Tasks |-> IdleTask]
  /\ mq = IdleMulti
  /\ last = Nothing
  /\ ncalls = 0
  /\ active_connections = <<>>
  /\ handler = [c \in Connections |-> NewHandler]


\* ---------------------------------------------------------- process_query

\* Whether agent_scores holds an admissible entry.
SomeAdmissible(scores) == \E k \in AgentSet : scores[k].can_handle

\* The locals of one run of _select_best_agent: its arguments, the history it
\* read, how each agent's evaluation went, agent_scores and best_agent.
Selection(query, context, history, ans) ==
  [query |-> query, context |-> context, history |-> history, ans |-> ans] @@
  SelectBestAgent(query, context, history, ans)

\* What process_query returned to its caller: `fault` says whether an exception
\* reached its `except`, `logged` whether it appended to the history;
\* `selection` is present when the call returned without suspending, and
\* `agent_response` (what process_request returned) when it returned one.
QueryReturned(t, request, selected, admissible, fault, logged, response) ==
  [kind |-> "query_returned", task |-> t, request |-> request, selected |-> selected,
   admissible |-> admissible, fault |-> fault, logged |-> logged,
   response |-> response]

\* Whether the step just taken ran _select_best_agent.
IsSelection(e) ==
  \/ e.kind = "delegated"
  \/ e.kind = "selected"
  \/ e.kind = "query_returned" /\ e.selected = NoAgent

\* process_query from its entry to its first suspension (lines 63-83): the
\* request is built and the agents are scored (ans: how each evaluation went);
\* then either no agent is selected and the fallback response is returned
\* (caps_fault: a get_capabilities call of _create_fallback_response raises),
\* or process_request of the selected agent is entered and the call suspends.
StartQuery(t, input, ans, caps_fault) ==
  /\ pq[t].pc = "idle"
  /\ ncalls < MaxCalls
  /\ ncalls' = ncalls + 1
  /\ LET selection == Selection(input.query, input.context, request_history, ans)
         scores == selection.scores
         selected == selection.selected
     IN  IF selected = NoAgent
           THEN /\ pq' = pq
                /\ last' = [QueryReturned(t, input, NoAgent, SomeAdmissible(scores),
                               caps_fault, FALSE,
                               IF caps_fault
                                 THEN CreateErrorResponse(ErrorText("get_capabilities"))
                                 ELSE CreateFallbackResponse)
                             EXCEPT !.kind = "query_returned"] @@
                            [selection |-> selection]
           ELSE /\ ~caps_fault
                /\ pq' = [pq EXCEPT ![t] =
                            [pc |-> "awaiting", request |-> input, selected |-> selected,
                             admissible |-> SomeAdmissible(scores)]]
                /\ last' = [kind |-> "delegated", task |-> t, request |-> input,
                            selected |-> selected,
                            selection |-> selection]
  /\ UNCHANGED <<request_history, clock, mq, active_connections, handler>>

\* Faulty variant of CompleteQuery: when process_request raises, the request
\* is handed to the next registered agent instead of being answered with the
\* error response.
CompleteQuery_Retry(t, outcome, data, caps_fault, recheck) ==
  /\ pq[t].pc = "awaiting"
  /\ LET k == pq[t].selected
         request == pq[t].request
         substitute == IF k = AgentKeys[Len(AgentKeys)] THEN AgentKeys[1]
                       ELSE AgentKeys[(CHOOSE i \in 1..Len(AgentKeys) : AgentKeys[i] = k) + 1]
         agent_response == AgentResponse(k, outcome = "success", data)
         fault == caps_fault \/ recheck = "raise"
         response ==
           IF caps_fault THEN CreateErrorResponse(ErrorText("get_capabilities"))
           ELSE IF recheck = "raise" THEN CreateErrorResponse(ErrorText("can_handle"))
           ELSE AddMetadata(agent_response, k, recheck = "true")
     IN  IF outcome = "raise"
           THEN /\ pq' = [pq EXCEPT ![t].selected = substitute]
                /\ last' = [kind |-> "retried", task |-> t, request |-> request,
                            selected |-> substitute]
                /\ UNCHANGED <<request_history, clock>>
           ELSE /\ request_history' =
                     LogRequest(request_history, request.query, AgentName(k),
                                agent_response.success, clock + 1)
                /\ clock' = clock + 1
                /\ last' = QueryReturned(t, request, k, pq[t].admissible, fault,
                                         TRUE, response) @@
                           [agent_response |-> agent_response,
                             rechecked |-> IF caps_fault THEN "not reached" ELSE recheck]
                /\ pq' = [pq EXCEPT ![t] = IdleTask]
  /\ UNCHANGED <<mq, ncalls, active_connections, handler>>

\* Faulty variant of CompleteQuery: a process_request that raises is logged
\* as a failure of the selected agent.
CompleteQuery_LogFailure(t, outcome, data, caps_fault, recheck) ==
  /\ pq[t].pc = "awaiting"
  /\ LET k == pq[t].selected
         request == pq[t].request
         agent_response == AgentResponse(k, outcome = "success", data)
         fault == outcome = "raise" \/ caps_fault \/ recheck = "raise"
         response ==
           IF outcome = "raise" THEN CreateErrorResponse(ErrorText("process_request"))
           ELSE IF caps_fault THEN CreateErrorResponse(ErrorText("get_capabilities"))
           ELSE IF recheck = "raise" THEN CreateErrorResponse(ErrorText("can_handle"))
           ELSE AddMetadata(agent_response, k, recheck = "true")
     IN  /\ request_history' =
              LogRequest(request_history, request.query, AgentName(k),
                         outcome = "success", clock + 1)
         /\ clock' = clock + 1
         /\ last' = IF outcome = "raise"
                       THEN QueryReturned(t, request, k, pq[t].admissible, fault,
                                          FALSE, response)
                       ELSE QueryReturned(t, request, k, pq[t].admissible, fault,
                                          TRUE, response) @@
                            [agent_response |-> agent_response,
                             rechecked |-> IF caps_fault THEN "not reached" ELSE recheck]
  /\ pq' = [pq EXCEPT ![t] = IdleTask]
  /\ UNCHANGED <<mq, ncalls, active_connections, handler>>

\* process_query from the return of process_request to its own return (lines
\* 83-102).  outcome: process_request returned a response with success true
\* ("success") or false ("failure"), or raised; caps_fault: get_capabilities
\* raises at line 92; recheck: what can_handle does at line 202.
CompleteQuery(t, outcome, data, caps_fault, recheck) ==
  /\ pq[t].pc = "awaiting"
  /\ LET k == pq[t].selected
         request == pq[t].request
         agent_response == AgentResponse(k, outcome = "success", data)
         fault == outcome = "raise" \/ caps_fault \/ recheck = "raise"
         response ==
           IF outcome = "raise" THEN CreateErrorResponse(ErrorText("process_request"))
           ELSE IF caps_fault THEN CreateErrorResponse(ErrorText("get_capabilities"))
           ELSE IF recheck = "raise" THEN CreateErrorResponse(ErrorText("can_handle"))
           ELSE AddMetadata(agent_response, k, recheck = "true")
     IN  /\ IF outcome = "raise"
              THEN UNCHANGED <<request_history, clock>>
              ELSE /\ request_history' =
                        LogRequest(request_history, request.query, AgentName(k),
                                   agent_response.success, clock + 1)
                   /\ clock' = clock + 1
         /\ last' = IF outcome = "raise"
                       THEN QueryReturned(t, request, k, pq[t].admissible, fault,
                                          FALSE, response)
                       ELSE QueryReturned(t, request, k, pq[t].admissible, fault,
                                          TRUE, response) @@
                            [agent_response |-> agent_response,
                             rechecked |-> IF caps_fault THEN "not reached" ELSE recheck]
  /\ pq' = [pq EXCEPT ![t] = IdleTask]
  /\ UNCHANGED <<mq, ncalls, active_connections, handler>>

\* ------------------------------------------------ process_multi_agent_query

MultiInputs == { [query |-> QAll, context |-> AnalysisContext(QFin)] }

CanHandleOutcomes == {"true", "false", "raise"}

\* relevant_agents: the agents whose can_handle returned true, in
\* registration order.
RelevantAgents(ans) == SelectSeq(AgentKeys, LAMBDA k : ans[k] = "true")

\* AgentRequest(query=query, context=context)
MultiRequest(query, context) == Request(query, context, "None", "None")

\* The agents the admissibility loop (lines 317-319) has collected when it
\* ends: all the relevant ones, or those found before the first can_handle
\* that raises.
RECURSIVE Collected(_, _)
Collected(ans, i) ==
  IF i > Len(AgentKeys) \/ ans[AgentKeys[i]] = "raise" THEN <<>>
  ELSE IF ans[AgentKeys[i]] = "true" THEN <<AgentKeys[i]>> \o Collected(ans, i + 1)
  ELSE Collected(ans, i + 1)

\* `outcomes`: how process_request of each relevant agent ended, in the order
\* the calls were made.
\* `ans`: what can_handle of each agent returned.
MultiReturned(query, relevant, raised, responses, outcomes, ans) ==
  [kind |-> "multi_returned", query |-> query, relevant |-> relevant,
   raised |-> raised, responses |-> responses, outcomes |-> outcomes, ans |-> ans]

\* The step entered process_request of `agent` with `request`, the built-th
\* AgentRequest this call constructed (line 324).
MultiInvoked(agent, request, built, relevant) ==
  [kind |-> "multi_invoked", agent |-> agent, request |-> request,
   built |-> built, relevant |-> relevant]

\* Faulty variant of StartMulti: each agent is invoked as soon as its own
\* can_handle returned true, so the first relevant agent is processing when
\* a later can_handle raises.
StartMulti_Lazy(input, ans) ==
  /\ mq.pc = "idle"
  /\ ncalls < MaxCalls
  /\ ncalls' = ncalls + 1
  /\ IF Collected(ans, 1) = <<>>
       THEN /\ mq' = mq
            /\ last' = IF \E k \in AgentSet : ans[k] = "raise"
                         THEN [kind |-> "multi_raised", query |-> input.query,
                               error |-> ErrorText("can_handle"), relevant |-> <<>>]
                         ELSE MultiReturned(input.query, <<>>, 0, <<>>, <<>>, ans)
       ELSE /\ mq' = [pc |-> "awaiting", query |-> input.query,
                      context |-> input.context, relevant |-> Collected(ans, 1),
                      idx |-> 1, responses |-> <<>>, raised |-> 0,
                      outcomes |-> <<>>, ans |-> ans]
            /\ last' = MultiInvoked(Collected(ans, 1)[1],
                                    MultiRequest(input.query, input.context), 1,
                                    Collected(ans, 1))
  /\ UNCHANGED <<request_history, clock, pq, active_connections, handler>>

\* process_multi_agent_query from its entry to its first suspension (lines
\* 313-325): the admissibility loop, which no `try` guards, and the entry
\* into process_request of the first relevant agent.
StartMulti(input, ans) ==
  /\ mq.pc = "idle"
  /\ ncalls < MaxCalls
  /\ ncalls' = ncalls + 1
  /\ IF \E k \in AgentSet : ans[k] = "raise"
       THEN /\ mq' = mq
            /\ last' = [kind |-> "multi_raised", query |-> input.query,
                        error |-> ErrorText("can_handle"),
                        relevant |-> Collected(ans, 1)]
       ELSE IF RelevantAgents(ans) = <<>>
         THEN /\ mq' = mq
              /\ last' = MultiReturned(input.query, <<>>, 0, <<>>, <<>>, ans)
         ELSE /\ mq' = [pc |-> "awaiting", query |-> input.query,
                        context |-> input.context, relevant |-> RelevantAgents(ans),
                        idx |-> 1, responses |-> <<>>, raised |-> 0,
                        outcomes |-> <<>>, ans |-> ans]
              /\ last' = MultiInvoked(RelevantAgents(ans)[1],
                                      MultiRequest(input.query, input.context), 1,
                                      RelevantAgents(ans))
  /\ UNCHANGED <<request_history, clock, pq, active_connections, handler>>

\* Faulty variant of CollectResponse: only successful responses are kept.
CollectResponse_SuccessOnly(responses, k, outcome) ==
  IF outcome = "success"
    THEN Append(responses, AgentResponse(k, TRUE, AgentData(FALSE, {"result"})))
    ELSE responses

\* Faulty variant of CollectResponse: the response of an agent that the
\* history's latest record names is dropped.
CollectResponse_LedgerGated(responses, k, outcome) ==
  IF outcome = "raise" THEN responses
  ELSE IF /\ request_history # <<>>
          /\ request_history[Len(request_history)].agent = AgentName(k)
    THEN responses
  ELSE Append(responses,
              AgentResponse(k, outcome = "success", AgentData(FALSE, {"result"})))

\* Lines 325-328: `responses` after process_request of agent k returned a
\* response or raised.
CollectResponse(responses, k, outcome) ==
  IF outcome = "raise" THEN responses
  ELSE Append(responses,
              AgentResponse(k, outcome = "success", AgentData(FALSE, {"result"})))

\* Faulty variant of MultiStep: the fan-out logs every response it collects,
\* as process_query does.
MultiStep_Logging(outcome) ==
  /\ mq.pc = "awaiting"
  /\ LET k == mq.relevant[mq.idx]
         responses == CollectResponse(mq.responses, k, outcome)
         raised == IF outcome = "raise" THEN mq.raised + 1 ELSE mq.raised
         outcomes == Append(mq.outcomes, outcome)
     IN  /\ IF mq.idx = Len(mq.relevant)
              THEN /\ mq' = IdleMulti
                   /\ last' = MultiReturned(mq.query, mq.relevant, raised, responses,
                                            outcomes, mq.ans)
              ELSE /\ mq' = [mq EXCEPT !.idx = @ + 1, !.responses = responses,
                                       !.raised = raised, !.outcomes = outcomes]
                   /\ last' = MultiInvoked(mq.relevant[mq.idx + 1],
                                           MultiRequest(mq.query, mq.context),
                                           mq.idx + 1, mq.relevant)
         /\ IF outcome = "raise"
              THEN UNCHANGED <<request_history, clock>>
              ELSE /\ request_history' =
                        LogRequest(request_history, mq.query, AgentName(k),
                                   outcome = "success", clock + 1)
                   /\ clock' = clock + 1
  /\ UNCHANGED <<pq, ncalls, active_connections, handler>>

\* One pass of the processing loop (lines 322-330): process_request of the
\* current agent returns or raises; the next agent is invoked, or the
\* responses are returned.
MultiStep(outcome) ==
  /\ mq.pc = "awaiting"
  /\ LET k == mq.relevant[mq.idx]
         responses == CollectResponse(mq.responses, k, outcome)
         raised == IF outcome = "raise" THEN mq.raised + 1 ELSE mq.raised
         outcomes == Append(mq.outcomes, outcome)
     IN  IF mq.idx = Len(mq.relevant)
           THEN /\ mq' = IdleMulti
                /\ last' = MultiReturned(mq.query, mq.relevant, raised, responses,
                                         outcomes, mq.ans)
           ELSE /\ mq' = [mq EXCEPT !.idx = @ + 1, !.responses = responses,
                                    !.raised = raised, !.outcomes = outcomes]
                /\ last' = MultiInvoked(mq.relevant[mq.idx + 1],
                                        MultiRequest(mq.query, mq.context),
                                        mq.idx + 1, mq.relevant)
  /\ UNCHANGED <<request_history, clock, pq, ncalls, active_connections, handler>>

\* --------------------------------------------------- get_orchestrator_stats

RECENT == 10

\* datetime.isoformat(): the text of an instant.
IsoFormat(ts) == <<"iso", ts>>

\* Faulty variant of Recent: the slice [:10], the oldest ten records.
Recent_First(history) ==
  SubSeq(history, 1, IF Len(history) > RECENT THEN RECENT ELSE Len(history))

\* self.request_history[-10:]
Recent(history) ==
  SubSeq(history, IF Len(history) > RECENT THEN Len(history) - RECENT + 1 ELSE 1,
         Len(history))

\* max(req["timestamp"] for req in agent_requests) over the records lo..hi
\* (0 when none of them is the agent's), by halving the range.
RECURSIVE LastUsed(_, _, _, _)
LastUsed(history, k, lo, hi) ==
  IF lo > hi THEN 0
  ELSE IF lo = hi
    THEN (IF history[lo].agent = k THEN history[lo].timestamp ELSE 0)
  ELSE LET mid == (lo + hi) \div 2
           a == LastUsed(history, k, lo, mid)
           b == LastUsed(history, k, mid + 1, hi)
       IN  IF a < b THEN b ELSE a

\* Faulty variant of Performers: every registered agent gets an entry, those
\* without a record too.
Performers_All(history) == AgentSet

\* The registry keys with a record in the history under that very name.
Performers(history) ==
  {k \in AgentSet : \E i \in 1..Len(history) : history[i].agent = k}

\* agent_performance[k]
Performance(k, history) ==
  LET agent_requests == AgentHistory(history, k)
  IN
  [total_requests |-> Cardinality(agent_requests),
   success_rate |-> Rate(Cardinality({i \in agent_requests : history[i].success}),
                         Cardinality(agent_requests)),
   last_used |-> IsoFormat(LastUsed(history, k, 1, Len(history)))]

\* get_orchestrator_stats
OrchestratorStats(history) ==
  IF history = <<>>
    THEN [total_requests |-> 0, agent_performance |-> <<>>, recent_activity |-> <<>>]
    ELSE [total_requests |-> Len(history),
          agent_performance |-> [k \in Performers(history) |-> Performance(k, history)],
          recent_activity |->
            [i \in 1..Len(Recent(history)) |->
               [query |-> Recent(history)[i].query, agent |-> Recent(history)[i].agent,
                success |-> Recent(history)[i].success,
                timestamp |-> IsoFormat(Recent(history)[i].timestamp)]]]

\* Faulty variant of GetStats: the statistics are served from a cache filled
\* before the latest record was appended.
GetStats_Cached ==
  /\ last' = [kind |-> "stats",
              stats |-> OrchestratorStats(
                          SubSeq(request_history, 1, Len(request_history) - 1))]
  /\ UNCHANGED <<request_history, clock, pq, mq, ncalls, active_connections, handler>>

GetStats ==
  /\ last' = [kind |-> "stats", stats |-> OrchestratorStats(request_history)]
  /\ UNCHANGED <<request_history, clock, pq, mq, ncalls, active_connections, handler>>

\* ------------------------------------------------------ _select_best_agent

\* _select_best_agent applied to sampled arguments and a sampled history.
SelectStep(input, ans) ==
  /\ last.kind = "init"
  /\ last' = [kind |-> "selected",
              selection |-> Selection(input.query, input.context, request_history, ans)]
  /\ UNCHANGED <<request_history, clock, pq, mq, ncalls, active_connections, handler>>

\* ---------------------------------------------------------- specifications

\* A new process_query call runs as the lowest idle task.
FreeSlot(t) == pq[t].pc = "idle" /\ \A u \in Tasks : u < t => pq[u].pc # "idle"

\* The evaluations of the registry sampled: how each agent's evaluation goes.
Answers ==
  {ans \in [AgentSet -> Outcomes] :
     Cardinality({k \in AgentSet : ans[k] # "false"}) <= MaxEngaged}

MultiAnswers == {ans \in Answers : \A k \in AgentSet : ans[k] \in CanHandleOutcomes}

Next ==
  \/ \E t \in Tasks :
       /\ FreeSlot(t)
       /\ ncalls < MaxCalls
       /\ \E input \in Inputs, ans \in Answers, caps_fault \in BOOLEAN :
            StartQuery(t, input, ans, caps_fault)
  \/ \E t \in Tasks, outcome \in {"success", "failure", "raise"}, data \in AgentDatas,
        caps_fault \in BOOLEAN, recheck \in CanHandleOutcomes :
       CompleteQuery(t, outcome, data, caps_fault, recheck)
  \/ /\ mq.pc = "idle"
     /\ ncalls < MaxCalls
     /\ \E input \in MultiInputs, ans \in MultiAnswers : StartMulti(input, ans)
  \/ \E outcome \in {"success", "failure", "raise"} : MultiStep(outcome)
  \/ GetStats

Spec == Init /\ [][Next]_vars

\* The router on a history that is full or nearly so: the history that many
\* successful calls answered by the first agent leave.
FilledHistory(n) ==
  [i \in 1..n |-> HistoryRecord(QFin, AgentName(AgentKeys[1]), TRUE, i)]

InitFull ==
  /\ \E n \in (MAX_HISTORY - MaxHeadroom)..MAX_HISTORY :
       /\ request_history = FilledHistory(n)
       /\ clock = n
  /\ pq = [t \in Tasks |-> IdleTask]
  /\ mq = IdleMulti
  /\ last = Nothing
  /\ ncalls = 0
  /\ active_connections = <<>>
  /\ handler = [c \in Connections |-> NewHandler]

\* Near the bound the calls sampled are those of one argument tuple with at
\* most one agent that accepts; can_handle holds when it is asked again.
FullAnswers ==
  {ans \in [AgentSet -> {"true", "false"}] :
     Cardinality({k \in AgentSet : ans[k] = "true"}) <= 1}

FullInput == Request(QLong, NoneContext, "u1", "s2")

\* get_orchestrator_stats only reads the history and is left to Spec.
NextFull ==
  \/ \E t \in Tasks :
       /\ FreeSlot(t)
       /\ ncalls < MaxCalls
       /\ \E ans \in FullAnswers : StartQuery(t, FullInput, ans, FALSE)
  \/ \E t \in Tasks, outcome \in {"success", "failure", "raise"}, caps_fault \in BOOLEAN :
       CompleteQuery(t, outcome, AgentData(TRUE, {}), caps_fault, "true")
  \/ /\ mq.pc = "idle"
     /\ ncalls < MaxCalls
     /\ \E input \in MultiInputs, ans \in FullAnswers : StartMulti(input, ans)
  \/ \E outcome \in {"success", "failure", "raise"} : MultiStep(outcome)

SpecFull == InitFull /\ [][NextFull]_vars

\* Concurrent process_query calls and statistics reads on a history that is
\* full or nearly so.
NextAtomic ==
  \/ \E t \in Tasks :
       /\ FreeSlot(t)
       /\ ncalls < MaxCalls
       /\ \E ans \in FullAnswers : StartQuery(t, FullInput, ans, FALSE)
  \/ \E t \in Tasks, outcome \in {"success", "failure", "raise"} :
       CompleteQuery(t, outcome, AgentData(TRUE, {}), FALSE, "true")
  \/ GetStats

SpecAtomic == InitFull /\ [][NextAtomic]_vars

\* The selection as a function of its arguments: the histories sampled are
\* the sequences of at most MaxSample records.
SampleRecords ==
  {HistoryRecord(QFin, AgentName(k), ok, 0) : k \in AgentSet, ok \in BOOLEAN}

RECURSIVE SampleHistories(_)
SampleHistories(n) ==
  IF n = 0 THEN {<<>>}
  ELSE SampleHistories(n - 1) \cup
       { Append(h, [r EXCEPT !.timestamp = n]) :
           h \in {g \in SampleHistories(n - 1) : Len(g) = n - 1}, r \in SampleRecords }

InitSelect ==
  /\ request_history \in SampleHistories(MaxSample)
  /\ clock = Len(request_history)
  /\ pq = [t \in Tasks |-> IdleTask]
  /\ mq = IdleMulti
  /\ last = Nothing
  /\ ncalls = 0
  /\ active_connections = <<>>
  /\ handler = [c \in Connections |-> NewHandler]

NextSelect ==
  /\ last.kind = "init"
  /\ \E input \in SelectInputs, ans \in [AgentSet -> Outcomes] : SelectStep(input, ans)

SpecSelect == InitSelect /\ [][NextSelect]_vars

\* The statistics view on histories of up to RECENT + MaxExtra records.  A
\* sampled history cycles through the first `agents` registered agents, and
\* every record whose position is a multiple of `fail` is an agent-reported
\* failure (fail = 0: none is).
Patterns == [agents : 1..Len(AgentKeys), fail : {0, 1, 2, 3}]

PatternHistory(n, p) ==
  [i \in 1..n |->
     HistoryRecord(QFin, AgentName(AgentKeys[(i % p.agents) + 1]),
                   p.fail = 0 \/ i % p.fail # 0, i)]

InitStats ==
  /\ \E n \in 0..(RECENT + MaxExtra), p \in Patterns :
       /\ request_history = PatternHistory(n, p)
       /\ clock = n
  /\ pq = [t \in Tasks |-> IdleTask]
  /\ mq = IdleMulti
  /\ last = Nothing
  /\ ncalls = 0
  /\ active_connections = <<>>
  /\ handler = [c \in Connections |-> NewHandler]

\* Statistics reads between process_query calls made one after the other.
NextStats ==
  \/ /\ FreeSlot(1)
     /\ ncalls < MaxCalls
     /\ \E ans \in FullAnswers : StartQuery(1, FullInput, ans, FALSE)
  \/ \E outcome \in {"success", "failure", "raise"} :
       CompleteQuery(1, outcome, AgentData(TRUE, {}), FALSE, "true")
  \/ GetStats

SpecStats == InitStats /\ [][NextStats]_vars


\* ================================================================= claims

\* C1: the history holds at most 1000 records in every state a caller or
\* another call can observe (checked under SpecFull, where appends take a
\* full history past the bound).
C1_LedgerBound == Len(request_history) <= MAX_HISTORY

\* A process_query call appended to a history that already held 1000 records.
C1_Witness ==
  /\ last.kind = "query_returned"
  /\ last.logged
  /\ clock > MAX_HISTORY
  /\ Len(request_history) = MAX_HISTORY

\* C2: eviction is FIFO: after N appends the history is exactly the last
\* min(N, 1000) records appended, in append order (the i-th record kept is
\* the (N - length + i)-th appended).
C2_FifoEviction ==
  /\ Len(request_history) = Min(clock, MAX_HISTORY)
  /\ \A i \in 1..Len(request_history) :
       request_history[i].timestamp = clock - Len(request_history) + i

\* Two appends each evicted the oldest record of a full history.
C2_Witness ==
  /\ clock >= MAX_HISTORY + 2
  /\ Len(request_history) = MAX_HISTORY
  /\ request_history[1].timestamp = clock - MAX_HISTORY + 1
  /\ request_history[MAX_HISTORY].timestamp = clock

\* C3: whenever process_query delegates to an agent, that agent's can_handle
\* returned true during selection: an agent whose can_handle returned false
\* or raised (or whose scoring raised) is never selected.
C3_SelectedWasAdmissible ==
  last.kind = "delegated" => last.selection.ans[last.selected] = "true"

\* A delegation decided while another agent's can_handle raised.
C3_Witness ==
  /\ last.kind = "delegated"
  /\ \E k \in AgentSet : last.selection.ans[k] = "raise"

\* Whether a response carries success=false and agent_type="MoEOrchestrator".
OrchestratorFailure(response) ==
  response.success = FALSE /\ response.agent_type = ORCHESTRATOR

\* C4 as stated: process_query returns success=false and
\* agent_type="MoEOrchestrator" if and only if no registered agent is
\* admissible for the query.
C4_FallbackIff ==
  last.kind = "query_returned" =>
    (OrchestratorFailure(last.response) <=> ~last.admissible)

\* C4 as amended: process_query returns success=false and
\* agent_type="MoEOrchestrator" if and only if no registered agent was scored
\* admissible (the fallback response) or an exception reached its handler
\* (the error response).
C4_FallbackOrError ==
  last.kind = "query_returned" =>
    (OrchestratorFailure(last.response) <=> (~last.admissible \/ last.fault))

\* The fallback response returned with no agent admissible and no fault.
C4_Witness ==
  /\ last.kind = "query_returned"
  /\ ~last.admissible
  /\ ~last.fault
  /\ last.response.data.kind = "fallback"

ErrorSites == {"get_capabilities", "process_request", "can_handle"}

\* C5: process_query never lets an exception escape: every call ends by
\* returning a response, and when an exception reached its handler
\* (process_request, get_capabilities or the post-hoc can_handle raised, or
\* get_capabilities raised while the fallback was built) the response is the
\* error response: success=false, agent_type="MoEOrchestrator",
\* data={error: text}.
C5_NoEscape ==
  last.kind = "query_returned" /\ last.fault =>
    /\ OrchestratorFailure(last.response)
    /\ \E site \in ErrorSites :
         last.response.data = [kind |-> "error", error |-> ErrorText(site)]

\* A fault after the history was appended to: the error response is returned.
C5_Witness ==
  /\ last.kind = "query_returned"
  /\ last.fault
  /\ last.logged
  /\ last.response.data.kind = "error"

\* C6 as stated: process_multi_agent_query never lets a single agent's
\* exception abort the batch: whenever one agent raises, in its admissibility
\* check or in process_request, the call still returns its responses.
C6_MultiNeverRaises == last.kind # "multi_raised"

\* C7: process_multi_agent_query returns at most as many responses as there
\* are admissible agents and at least that number less the agents whose
\* process_request raised; a response with success=false is included.
C7_FanOutCount ==
  last.kind = "multi_returned" =>
    /\ Len(last.responses) <= Len(last.relevant)
    /\ Len(last.responses) >= Len(last.relevant) - last.raised

\* Two admissible agents: one raised, the other returned success=false and is
\* the one response.
C7_Witness ==
  /\ last.kind = "multi_returned"
  /\ Len(last.relevant) = 2
  /\ last.raised = 1
  /\ Len(last.responses) = 1
  /\ ~last.responses[1].success

Index(k) == CHOOSE i \in 1..Len(AgentKeys) : AgentKeys[i] = k

\* C9: the selected agent is admissible, no admissible agent has a strictly
\* higher confidence, and of the admissible agents tied for the highest
\* confidence it is the one registered first.
C9_HighestFirst ==
  last.kind = "selected" /\ last.selection.selected # NoAgent =>
    LET scores == last.selection.scores
        best == last.selection.selected
    IN  /\ scores[best].can_handle
        /\ \A k \in AgentSet :
             scores[k].can_handle =>
               /\ ~FloatLess(scores[best].confidence, scores[k].confidence)
               /\ scores[k].confidence = scores[best].confidence =>
                    Index(best) <= Index(k)

\* Two admissible agents tied for the highest confidence.
C9_Witness ==
  /\ last.kind = "selected"
  /\ last.selection.selected # NoAgent
  /\ \E k \in AgentSet \ {last.selection.selected} :
       /\ last.selection.scores[k].can_handle
       /\ last.selection.scores[k].confidence =
            last.selection.scores[last.selection.selected].confidence

\* C10: the confidence recorded for an agent during selection lies in
\* [0.5, 1.0] when the agent is recorded admissible, which it is when
\* can_handle returned true (and its scoring did not raise), and is exactly
\* 0.0 when it is recorded inadmissible, which it is when can_handle returned
\* false or raised.
C10_ConfidenceBounds ==
  last.kind = "selected" =>
    \A k \in AgentSet :
      LET s == last.selection.scores[k]
          outcome == last.selection.ans[k]
      IN  /\ s.can_handle =>
               /\ ~FloatLess(s.confidence, Float(5, 0))
               /\ ~FloatLess(Float(10, 0), s.confidence)
          /\ ~s.can_handle => s.confidence = Float(0, 0)
          /\ outcome = "true" => s.can_handle
          /\ outcome \in {"false", "raise"} => ~s.can_handle

\* An agent whose boosts sum past 1.0 is recorded with exactly 1.0 while
\* another agent's can_handle raised.
C10_Witness ==
  /\ last.kind = "selected"
  /\ \E k \in AgentSet :
       /\ last.selection.ans[k] = "true"
       /\ last.selection.scores[k].confidence = Float(10, 0)
       /\ KeywordMatches(k, last.selection.query) >= 3
       /\ Truthy(last.selection.context)
       /\ last.selection.context.has_report
       /\ InCapabilities(k, last.selection.context.report_type)
       /\ InCapabilities(k, last.selection.context.analysis_type)
  /\ \E k \in AgentSet : last.selection.ans[k] = "raise"

\* The payload of the fallback response: every registered name in
\* registration order, and every registered name mapped to its capability tags.
FallbackPayload(data) ==
  /\ data.kind = "fallback"
  /\ data.available_agents = [i \in 1..Len(AgentKeys) |-> AgentName(AgentKeys[i])]
  /\ DOMAIN data.agent_capabilities = AgentSet
  /\ \A k \in AgentSet : data.agent_capabilities[k] = Capabilities(k)

\* The call returned from the step that started it: it never suspended, so no
\* agent's process_request was invoked and nothing was appended.
NoAgentInvoked ==
  /\ last.selected = NoAgent
  /\ ~last.logged
  /\ "selection" \in DOMAIN last
  /\ pq[last.task].pc = "idle"

\* C11 as stated: when no agent is admissible, process_query returns the
\* fallback response, whose available_agents is the registered names in
\* registration order and whose agent_capabilities maps every registered name
\* to its capability tags, and no agent's process_request is invoked.
C11_FallbackPayload ==
  last.kind = "query_returned" /\ ~last.admissible =>
    /\ OrchestratorFailure(last.response)
    /\ FallbackPayload(last.response.data)
    /\ NoAgentInvoked

\* C11 as amended: when no agent is admissible no process_request is invoked,
\* and process_query returns that fallback response unless a get_capabilities
\* call made while the fallback is built raises, in which case it returns the
\* error response with that exception's text.
C11_FallbackUnlessCapabilitiesRaise ==
  last.kind = "query_returned" /\ ~last.admissible =>
    /\ OrchestratorFailure(last.response)
    /\ NoAgentInvoked
    /\ ~last.fault => FallbackPayload(last.response.data)
    /\ last.fault =>
         last.response.data = [kind |-> "error", error |-> ErrorText("get_capabilities")]

\* The fallback returned for a query that every agent declined.
C11_Witness ==
  /\ last.kind = "query_returned"
  /\ ~last.admissible
  /\ ~last.fault
  /\ \A k \in AgentSet : last.selection.ans[k] = "false"
  /\ FallbackPayload(last.response.data)

\* C12: whenever process_request of the selected agent returns a response r,
\* with r.success true or false, process_query appends exactly one record,
\* after the records already there: its agent is the selected agent's name,
\* its success is r.success and its query is the first 100 characters of the
\* call's query.
C12_LoggedVerdict ==
  [][ \A t \in Tasks :
        ( /\ pq[t].pc = "awaiting"
          /\ pq'[t].pc = "idle"
          /\ "agent_response" \in DOMAIN last' )
        => LET query == pq[t].request.query
               n == Len(request_history')
               rec == request_history'[n]
           IN  /\ n = Min(Len(request_history) + 1, MAX_HISTORY)
               /\ SubSeq(request_history', 1, n - 1) =
                    SubSeq(request_history, Len(request_history) - n + 2,
                           Len(request_history))
               /\ rec.agent = AgentName(pq[t].selected)
               /\ rec.success = last'.agent_response.success
               /\ Len(rec.query) = Min(Len(query), EXCERPT_LEN)
               /\ \A i \in 1..Len(rec.query) : rec.query[i] = query[i] ]_vars

\* An agent answered a query of more than 100 characters with success=false:
\* the record appended holds the verdict and 100 characters.
C12_Witness ==
  /\ last.kind = "query_returned"
  /\ "agent_response" \in DOMAIN last
  /\ ~last.agent_response.success
  /\ Len(last.request.query) > EXCERPT_LEN
  /\ request_history # <<>>
  /\ Len(request_history[Len(request_history)].query) = EXCERPT_LEN
  /\ ~request_history[Len(request_history)].success

\* The steps of process_multi_agent_query, as `last` names them.
MultiKinds == {"multi_invoked", "multi_returned", "multi_raised"}

\* C13: process_multi_agent_query leaves the history unchanged: none of its
\* steps (building the list of relevant agents, each return or exception of a
\* process_request, the return of the responses) appends to the history or
\* removes from it, whatever the query, the context and the agents do.
C13_MultiLeavesLedger ==
  [][ last'.kind \in MultiKinds =>
        /\ request_history' = request_history
        /\ clock' = clock ]_vars

\* A fan-out call returned two responses and the history is still empty.
C13_Witness ==
  /\ last.kind = "multi_returned"
  /\ Len(last.responses) = 2
  /\ request_history = <<>>
  /\ clock = 0

\* C14: get_orchestrator_stats is read-only and uncached: a call changes
\* neither the history nor any call in progress, and what it returns is
\* computed from the history as it is at the call: the total is its length
\* and its latest record is the last entry of recent_activity.
C14_StatsReadOnlyFresh ==
  [][ last'.kind = "stats" =>
        /\ request_history' = request_history
        /\ clock' = clock
        /\ pq' = pq
        /\ mq' = mq
        /\ LET stats == last'.stats
               n == Len(request_history)
           IN  /\ stats.total_requests = n
               /\ n > 0 =>
                    LET rec == request_history[n]
                        shown == stats.recent_activity[Len(stats.recent_activity)]
                    IN  /\ shown.query = rec.query
                        /\ shown.agent = rec.agent
                        /\ shown.success = rec.success
                        /\ shown.timestamp = IsoFormat(rec.timestamp) ]_vars

\* Statistics read after two calls were logged: both records are reported.
C14_Witness ==
  /\ last.kind = "stats"
  /\ Len(request_history) = 2
  /\ last.stats.total_requests = 2
  /\ Len(last.stats.recent_activity) = 2

\* The agent names that appear in the history.
LedgerNames == {request_history[i].agent : i \in 1..Len(request_history)}

\* The positions of the records of the agent named a.
RecordsOf(a) == {i \in 1..Len(request_history) : request_history[i].agent = a}

\* C15: agent_performance has an entry for exactly the agent names that
\* appear in the history, each with total_requests the number of that agent's
\* records and success_rate its successful records divided by that number;
\* the names in the history are names of registered agents, as process_query
\* writes them.
C15_PerformanceEntries ==
  last.kind = "stats" =>
    LET perf == last.stats.agent_performance
    IN  /\ DOMAIN perf = LedgerNames
        /\ LedgerNames \subseteq {AgentName(k) : k \in AgentSet}
        /\ \A a \in LedgerNames :
             /\ perf[a].total_requests = Cardinality(RecordsOf(a))
             /\ perf[a].success_rate.den = Cardinality(RecordsOf(a))
             /\ perf[a].success_rate.num =
                  Cardinality({i \in RecordsOf(a) : request_history[i].success})

\* Statistics over a history that a call has just appended to, in which one
\* agent has failures among its successes and another agent has no record.
C15_Witness ==
  /\ last.kind = "stats"
  /\ clock > RECENT
  /\ request_history[Len(request_history)].query = Excerpt(QLong)
  /\ LedgerNames # {AgentName(k) : k \in AgentSet}
  /\ \E a \in LedgerNames :
       /\ last.stats.agent_performance[a].success_rate.num > 1
       /\ last.stats.agent_performance[a].success_rate.num <
            last.stats.agent_performance[a].success_rate.den

\* C16: total_requests is the length of the history, and recent_activity is
\* exactly its last min(10, length) records in the order of the history, the
\* oldest of them first, each with the query excerpt, the agent name and the
\* success flag of that record.
C16_RecentActivity ==
  last.kind = "stats" =>
    LET recent == last.stats.recent_activity
        n == Len(request_history)
    IN  /\ last.stats.total_requests = n
        /\ Len(recent) = Min(RECENT, n)
        /\ \A j \in 1..Len(recent) :
             LET rec == request_history[n - Len(recent) + j]
             IN  /\ recent[j].query = rec.query
                 /\ recent[j].agent = rec.agent
                 /\ recent[j].success = rec.success

\* Statistics over a history of more than ten records, the latest appended
\* by a call: the two oldest records are not shown.
C16_Witness ==
  /\ last.kind = "stats"
  /\ Len(request_history) = RECENT + 2
  /\ Len(last.stats.recent_activity) = RECENT
  /\ last.stats.recent_activity[1].timestamp =
       IsoFormat(request_history[Len(request_history) - RECENT + 1].timestamp)
  /\ last.stats.recent_activity[RECENT].query = Excerpt(QLong)

\* C17: when an agent's can_handle raises during selection, that agent is
\* scored inadmissible with confidence 0.0, every other registered agent is
\* still scored (an agent that accepts is recorded admissible with a
\* confidence of at least 0.5), and the agent selected is the one selected
\* when that can_handle returns false instead.
C17_RaiseAsDecline ==
  IsSelection(last) =>
    LET sel == last.selection
    IN  \A k \in AgentSet :
          sel.ans[k] = "raise" =>
            /\ sel.scores[k] = Score(Float(0, 0), FALSE)
            /\ sel.selected # k
            /\ DOMAIN sel.scores = AgentSet
            /\ \A j \in AgentSet \ {k} :
                 sel.ans[j] = "true" =>
                   /\ sel.scores[j].can_handle
                   /\ ~FloatLess(sel.scores[j].confidence, Float(5, 0))
            /\ sel.selected =
                 SelectBestAgent(sel.query, sel.context, sel.history,
                                 [sel.ans EXCEPT ![k] = "false"]).selected

\* The first registered agent's can_handle raised and a later agent, scored
\* after it, was selected.
C17_Witness ==
  /\ last.kind = "selected"
  /\ last.selection.ans[AgentKeys[1]] = "raise"
  /\ last.selection.selected \in AgentSet \ {AgentKeys[1]}
  /\ last.selection.scores[last.selection.selected].can_handle

\* C18: when process_request of the selected agent raises, process_query
\* returns at once with the error response: success=false,
\* agent_type="MoEOrchestrator" and data.error the text of the exception; the
\* call is over, no other agent is handed the request, and nothing is logged.
C18_ProcessingFailure ==
  [][ \A t \in Tasks :
        ( /\ pq[t].pc = "awaiting"
          /\ pq'[t] # pq[t]
          /\ "agent_response" \notin DOMAIN last' )
        => /\ last'.kind = "query_returned"
           /\ last'.task = t
           /\ last'.selected = pq[t].selected
           /\ OrchestratorFailure(last'.response)
           /\ last'.response.data =
                [kind |-> "error", error |-> ErrorText("process_request")]
           /\ pq'[t] = IdleTask
           /\ \A u \in Tasks \ {t} : pq'[u] = pq[u]
           /\ request_history' = request_history ]_vars

\* process_request of the selected agent raised: the call returned the error
\* response with the exception's text and logged nothing.
C18_Witness ==
  /\ last.kind = "query_returned"
  /\ last.selected # NoAgent
  /\ ~last.logged
  /\ last.response.data = [kind |-> "error", error |-> ErrorText("process_request")]
  /\ pq[last.task].pc = "idle"

\* The delegated path: process_request returned a response and process_query
\* returned it with the metadata merged in.
Delegated == 
  /\ last.kind = "query_returned"
  /\ "agent_response" \in DOMAIN last
  /\ ~last.fault

\* The fields of the agent's response and the entries of its data other than
\* "orchestrator_metadata" are those of the response returned.
AgentFieldsKept ==
  /\ last.response.success = last.agent_response.success
  /\ last.response.message = last.agent_response.message
  /\ last.response.agent_type = last.agent_response.agent_type
  /\ last.response.timestamp = last.agent_response.timestamp
  /\ last.response.data.entries = last.agent_response.data.entries
  /\ last.response.data.has_meta

\* C19 as stated: on the delegated path the response returned has the
\* success, message, agent_type, timestamp and data entries of the agent's
\* own response, orchestrator_metadata being the one addition: no
\* agent-authored field or data entry is changed or removed.
C19_AgentFieldsUntouched ==
  Delegated =>
    /\ AgentFieldsKept
    /\ last.agent_response.data.has_meta =>
         last.response.data.orchestrator_metadata =
           last.agent_response.data.orchestrator_metadata

\* C19 as amended: on the delegated path the response returned has the
\* success, message, agent_type, timestamp and data entries of the agent's
\* own response, except that its orchestrator_metadata entry is the one the
\* orchestrator wrote: an entry the agent put under that key is replaced.
C19_MetadataMerged ==
  Delegated =>
    /\ AgentFieldsKept
    /\ last.response.data.orchestrator_metadata # OwnMetadata
    /\ last.response.data.orchestrator_metadata.selected_agent =
         AgentName(last.selected)

\* An agent-reported failure with a data entry of its own came back with
\* that entry and the metadata.
C19_Witness ==
  /\ Delegated
  /\ ~last.agent_response.success
  /\ ~last.agent_response.data.has_meta
  /\ last.agent_response.data.entries = {"result"}
  /\ last.response.data.entries = {"result"}
  /\ last.response.data.has_meta

\* C20: with process_query calls and statistics reads interleaved, a call
\* suspends only at process_request, so the history a call scores is the
\* history at the end of its selection (no other call appended in between),
\* and every history a selection or a statistics read observes holds exactly
\* the last min(N, 1000) records of the N appended: never more than 1000,
\* never a partially evicted one.
C20_AtomicLedger ==
  /\ IsSelection(last) =>
       /\ last.selection.history = request_history
       /\ Len(last.selection.history) = Min(clock, MAX_HISTORY)
       /\ Len(last.selection.history) <= MAX_HISTORY
       /\ Len(last.selection.history) > 0 =>
            /\ last.selection.history[1].timestamp =
                 clock - Len(last.selection.history) + 1
            /\ last.selection.history[Len(last.selection.history)].timestamp = clock
  /\ last.kind = "stats" =>
       /\ last.stats.total_requests = Min(clock, MAX_HISTORY)
       /\ last.stats.total_requests <= MAX_HISTORY

\* A statistics read observed 1000 records after another call's append
\* evicted the oldest one, while a call was suspended in process_request.
C20_Witness ==
  /\ last.kind = "stats"
  /\ clock > MAX_HISTORY
  /\ last.stats.total_requests = MAX_HISTORY
  /\ \E t \in Tasks : pq[t].pc = "awaiting"

\* The agent each response of a sequence came from.
Responders(responses) == [i \in 1..Len(responses) |-> responses[i].message[2]]

\* The agents of `relevant` whose process_request returned, in the order of
\* `relevant`.
Returned(relevant, outcomes) ==
  LET kept == SelectSeq([i \in 1..Len(relevant) |-> i],
                        LAMBDA i : outcomes[i] # "raise")
  IN  [j \in 1..Len(kept) |-> relevant[kept[j]]]

\* C21: the agents that respond to process_multi_agent_query, and the order
\* of their responses, are a function of what the can_handle calls returned
\* and of which process_request calls raised: the registered agents whose
\* can_handle returned true and whose process_request returned, in
\* registration order, whatever the history holds and whatever process_query
\* calls ran meanwhile.
C21_FanOutIndependent ==
  last.kind = "multi_returned" =>
    /\ last.relevant = RelevantAgents(last.ans)
    /\ Len(last.outcomes) = Len(last.relevant)
    /\ Responders(last.responses) = Returned(last.relevant, last.outcomes)

\* Two agents were relevant, the first raised and the second responded, and
\* the history holds a record of the responding agent, appended by a
\* process_query call of the same behaviour.
C21_Witness ==
  /\ last.kind = "multi_returned"
  /\ Len(last.relevant) = 2
  /\ last.outcomes[1] = "raise"
  /\ Responders(last.responses) = <<last.relevant[2]>>
  /\ request_history # <<>>
  /\ request_history[Len(request_history)].agent = AgentName(last.relevant[2])

\* C22: the responses of process_multi_agent_query are in registration
\* order, one for each relevant agent whose process_request returned; every
\* can_handle has returned before the first process_request is entered (a
\* can_handle that raises ends the call with no agent invoked); and each
\* agent is handed a request of its own, built for it from the query and the
\* context with no user_id and no session_id.
C22_FanOutOrder ==
  /\ last.kind = "multi_returned" =>
       /\ \A i, j \in 1..Len(last.responses) :
            i < j => Index(Responders(last.responses)[i]) <
                     Index(Responders(last.responses)[j])
       /\ \A k \in AgentSet :
            Cardinality({i \in 1..Len(last.responses) :
                           Responders(last.responses)[i] = k})
              = IF /\ last.ans[k] = "true"
                   /\ \E i \in 1..Len(last.relevant) :
                        last.relevant[i] = k /\ last.outcomes[i] # "raise"
                  THEN 1 ELSE 0
  /\ last.kind = "multi_invoked" =>
       /\ \A k \in AgentSet : mq.ans[k] \in {"true", "false"}
       /\ mq.ans[last.agent] = "true"
       /\ last.agent = last.relevant[last.built]
       /\ last.request.query = mq.query
       /\ last.request.context = mq.context
       /\ last.request.user_id = "None"
       /\ last.request.session_id = "None"
  /\ last.kind = "multi_raised" => mq.pc = "idle"

\* The second of two relevant agents was handed the second request built,
\* after the first one's process_request had returned.
C22_Witness ==
  /\ last.kind = "multi_invoked"
  /\ last.built = 2
  /\ Len(mq.responses) = 1
  /\ last.agent = mq.relevant[2]
  /\ last.request = MultiRequest(QAll, AnalysisContext(QFin))

\* process_request of the selected agent returned a response and
\* get_capabilities returned, so that can_handle was evaluated again
\* (lines 92-93).
Reevaluated ==
  /\ last.kind = "query_returned"
  /\ "agent_response" \in DOMAIN last
  /\ last.rechecked # "not reached"

\* The response carries the metadata process_query writes, naming the agent
\* that processed the request, with routing confidence rc.
MetadataWith(rc) ==
  /\ last.response.data.kind = "agent"
  /\ last.response.data.has_meta
  /\ last.response.data.orchestrator_metadata.selected_agent =
       AgentName(last.selected)
  /\ last.response.data.orchestrator_metadata.routing_confidence = rc

MatchesTag(k, value) ==
  \E i \in 1..Len(Capabilities(k)) : Lower(Capabilities(k)[i]) = Lower(value)

\* The keys among analysis_type and report_type that are present in the
\* context with a value matching a tag of agent k.
ContextMatches(k, context) ==
  IF context.none THEN 0
  ELSE (IF context.has_analysis /\ MatchesTag(k, context.analysis_type) THEN 1 ELSE 0)
     + (IF context.has_report /\ MatchesTag(k, context.report_type) THEN 1 ELSE 0)

\* x + 0.2 + ... + 0.2, n times.
RECURSIVE AddBoosts(_, _)
AddBoosts(x, n) == IF n = 0 THEN x ELSE AddBoosts(FloatAdd(x, 2), n - 1)

\* C24 as stated: the confidence of an admitted agent is its confidence under
\* no context plus 0.2 for each of analysis_type and report_type whose value
\* equals one of the agent's capability tags without regard to letter case;
\* a missing or empty context adds nothing.
C24_ContextBoost ==
  last.kind = "selected" =>
    \A k \in AgentSet :
      last.selection.ans[k] = "true" =>
        LET query == last.selection.query
            context == last.selection.context
            history == last.selection.history
            m == KeywordMatches(k, query)
            kw == IF m > 0 THEN FloatAdd(Float(5, 0), Min(3, m)) ELSE Float(5, 0)
            boosted == AddBoosts(kw, ContextMatches(k, context))
            h == IF RateGreater(GetHistoricalPerformance(AgentName(k), history),
                                Rate(8, 10))
                   THEN FloatAdd(boosted, 1) ELSE boosted
        IN  last.selection.scores[k].confidence = FloatMin(Float(10, 0), h)

\* The records of agent k in a history, and the successful ones among them.
OwnRecords(history, k) == {i \in 1..Len(history) : history[i].agent = AgentName(k)}
OwnSuccesses(history, k) == {i \in OwnRecords(history, k) : history[i].success}

\* C25: an agent's success rate is successes/total over its own records and
\* 0.5 when it has none; an admitted agent's confidence is its confidence
\* under an empty history plus 0.1 (capped at 1.0) if and only if that rate
\* is strictly above 0.8, that is when 5 * successes > 4 * total with
\* total > 0: no records, or a rate of exactly 0.8, give no boost.
C25_HistoricalBoost ==
  IsSelection(last) =>
    \A k \in AgentSet :
      last.selection.ans[k] = "true" =>
        LET history == last.selection.history
            total == Cardinality(OwnRecords(history, k))
            successes == Cardinality(OwnSuccesses(history, k))
            rate == GetHistoricalPerformance(AgentName(k), history)
            unboosted == CalculateAgentConfidence(k, last.selection.query,
                                                  last.selection.context, <<>>)
            confidence == last.selection.scores[k].confidence
        IN  /\ total = 0 => rate = Rate(1, 2)
            /\ total > 0 => rate.num * total = successes * rate.den
            /\ IF total > 0 /\ 5 * successes > 4 * total
                 THEN confidence = FloatMin(Float(10, 0), FloatAdd(unboosted, 1))
                 ELSE confidence = unboosted

\* An admitted agent with four successes in five records of its own, a rate
\* of exactly 0.8, was scored without the boost.
C25_Witness ==
  /\ IsSelection(last)
  /\ \E k \in AgentSet :
       /\ last.selection.ans[k] = "true"
       /\ Cardinality(OwnRecords(last.selection.history, k)) = 5
       /\ Cardinality(OwnSuccesses(last.selection.history, k)) = 4
       /\ last.selection.scores[k].confidence =
            CalculateAgentConfidence(k, last.selection.query,
                                     last.selection.context, <<>>)

\* Whether a word of the i-th capability tag of agent k occurs in the query,
\* letter case apart.
TagOccurs(k, i, query) ==
  LET words == Split(Lower(Capabilities(k)[i]))
  IN  \E j \in 1..Len(words) : IsSubstr(words[j], Lower(query))

\* The tags of each agent that occur in each sampled query.
TagsOccurring ==
  [k \in AgentSet |->
     [q \in Queries |-> {i \in 1..Len(Capabilities(k)) : TagOccurs(k, i, q)}]]

Appends(n) ==
  /\ clock' = clock + n
  /\ IF n = 0 THEN request_history' = request_history
     ELSE /\ Len(request_history') = Min(Len(request_history) + 1, MAX_HISTORY)
          /\ request_history'[Len(request_history')].timestamp = clock'

\* C27 as stated: a process_query call appends exactly one record when it
\* returns an agent's response and none when it returns the fallback
\* response or the error response (the step that suspends the call in
\* process_request appends nothing either).
C27_OneRecordPerResponse ==
  [][ /\ last'.kind = "delegated" => Appends(0)
      /\ last'.kind = "query_returned" =>
           IF last'.response.data.kind = "agent" THEN Appends(1) ELSE Appends(0) ]_vars

\* C27 as amended: a call that returns an agent's response appended exactly
\* one record; one that returns the fallback response appended none; one
\* that returns the error response appended none if selection, the fallback
\* or process_request raised, and the one record of the agent's response if
\* the exception came after process_request had returned.
C27_OneRecordPerProcessing ==
  [][ /\ last'.kind = "delegated" => Appends(0)
      /\ last'.kind = "query_returned" =>
           CASE last'.response.data.kind = "agent" -> Appends(1)
             [] last'.response.data.kind = "fallback" -> Appends(0)
             [] OTHER ->
                  IF "agent_response" \in DOMAIN last' THEN Appends(1) ELSE Appends(0)
    ]_vars

\* A call ended in the error response after process_request had returned:
\* the history holds the record of the agent's response.
C27_Witness ==
  /\ last.kind = "query_returned"
  /\ last.response.data.kind = "error"
  /\ "agent_response" \in DOMAIN last
  /\ request_history # <<>>
  /\ request_history[Len(request_history)].agent = AgentName(last.selected)
  /\ request_history[Len(request_history)].timestamp = clock

\* C28: when at least one agent is admissible (its can_handle returned true
\* and its scoring did not raise), the selection returns an admissible agent
\* and the call enters process_request of that one agent with the request
\* built from its own arguments; the call then ends at the return or the
\* exception of that process_request, with no second invocation and never
\* with the fallback response.
C28_AdmissibleIsServed ==
  [][ \A t \in Tasks :
        /\ ( /\ pq[t].pc = "idle"
             /\ last'.kind \in {"delegated", "query_returned"}
             /\ last'.task = t
             /\ "selection" \in DOMAIN last'
             /\ \E k \in AgentSet : last'.selection.ans[k] = "true" )
           => /\ last'.kind = "delegated"
              /\ last'.selected \in AgentSet
              /\ last'.selection.ans[last'.selected] = "true"
              /\ pq'[t].pc = "awaiting"
              /\ pq'[t].selected = last'.selected
              /\ pq'[t].request = last'.request
              /\ last'.request.query = last'.selection.query
              /\ last'.request.context = last'.selection.context
              /\ \A u \in Tasks \ {t} : pq'[u] = pq[u]
        /\ ( /\ pq[t].pc = "awaiting"
             /\ pq'[t] # pq[t] )
           => /\ pq'[t] = IdleTask
              /\ last'.kind = "query_returned"
              /\ last'.task = t
              /\ last'.selected = pq[t].selected
              /\ last'.request = pq[t].request
              /\ last'.response.data.kind # "fallback"
              /\ \A u \in Tasks \ {t} : pq'[u] = pq[u] ]_vars

\* A single admissible agent with no boost at all, scored 0.5 while another
\* agent's can_handle raised, was handed the request with its user_id.
C28_Witness ==
  /\ last.kind = "delegated"
  /\ last.selection.scores[last.selected].confidence = Float(5, 0)
  /\ Cardinality({k \in AgentSet : last.selection.ans[k] = "true"}) = 1
  /\ \E k \in AgentSet : last.selection.ans[k] = "raise"
  /\ pq[last.task].request = last.request
  /\ last.request.user_id = "u1"
  /\ last.request.session_id = "s2"

\* The process_query calls suspended in process_request.
Suspended == {t \in Tasks : pq[t].pc = "awaiting"}

\* C29: with interleaved calls, the record of a call is appended when its
\* process_request returns, after every record then in the history, those of
\* calls that started later included; a selection scores the agents on the
\* history as it is at that step, so that two selections on the same
\* history with the same arguments and answers give the same scores whatever
\* calls are suspended meanwhile, and the history scored holds no record of
\* a call that is still suspended (the records appended number at most the
\* calls started less those suspended).
C29_CompletionOrder ==
  [][ /\ \A t \in Tasks :
           ( /\ pq[t].pc = "awaiting"
             /\ pq'[t].pc = "idle"
             /\ "agent_response" \in DOMAIN last' )
           => /\ Len(request_history) < MAX_HISTORY =>
                   /\ Len(request_history') = Len(request_history) + 1
                   /\ \A i \in 1..Len(request_history) :
                        request_history'[i] = request_history[i]
              /\ request_history'[Len(request_history')].timestamp = clock'
              /\ \A i \in 1..(Len(request_history') - 1) :
                   request_history'[i].timestamp < clock'
      /\ ( /\ IsSelection(last) /\ IsSelection(last')
           /\ last'.selection.query = last.selection.query
           /\ last'.selection.context = last.selection.context
           /\ last'.selection.history = last.selection.history
           /\ last'.selection.ans = last.selection.ans )
         => last'.selection.scores = last.selection.scores
      /\ IsSelection(last') =>
           /\ last'.selection.history = request_history'
           /\ clock' + Cardinality({t \in Tasks : pq'[t].pc = "awaiting"}) <= ncalls'
    ]_vars

\* Task 1 started first and finished last: its record is the second of the
\* history, after the record of the call that task 2 started later.
C29_Witness ==
  /\ last.kind = "query_returned"
  /\ last.task = 1
  /\ "agent_response" \in DOMAIN last
  /\ Suspended = {}
  /\ Len(request_history) = 2
  /\ request_history[2].query = Excerpt(last.request.query)
  /\ request_history[1].query # request_history[2].query
  /\ request_history[1].timestamp < request_history[2].timestamp

\* --------------------------------------- WebSocket transport (chatbot_interface.py)

\* list.remove(x): the list without its first occurrence of x.
RECURSIVE Remove(_, _)
Remove(list, x) ==
  IF list = <<>> THEN <<>>
  ELSE IF Head(list) = x THEN Tail(list)
  ELSE <<Head(list)>> \o Remove(Tail(list), x)

\* What a step of websocket_endpoint for connection c did: `before` is the
\* handler's state when the step began.
WsStep(c, step, what) ==
  [kind |-> "ws", conn |-> c, step |-> step, what |-> what, before |-> handler[c]]

\* The handler of c ends in one of its `except` clauses (lines 341-345):
\* manager.disconnect(websocket).
Disconnect(c) ==
  /\ active_connections' = Remove(active_connections, c)
  /\ handler' = [handler EXCEPT ![c].pc = "ended"]

\* The handler of c ends by an exception that neither `except` clause
\* catches: asyncio.CancelledError, raised at the await the handler is
\* suspended at when its task is cancelled, is a BaseException.
Escapes(c) ==
  /\ active_connections' = active_connections
  /\ handler' = [handler EXCEPT ![c].pc = "ended"]

\* manager.connect (lines 51-53, called at line 310 outside the `try`):
\* `await websocket.accept()` returns, raises or is cancelled.
Connect(c, outcome) ==
  /\ handler[c].pc = "accepting"
  /\ IF outcome = "accepted"
       THEN /\ active_connections' = Append(active_connections, c)
            /\ handler' = [handler EXCEPT ![c].pc = "receiving"]
       ELSE Escapes(c)
  /\ last' = WsStep(c, "connect", outcome)
  /\ UNCHANGED <<request_history, clock, pq, mq, ncalls>>

\* What `await websocket.receive_text()` and the parsing of the text can
\* come to (lines 314-316): the client disconnected, receive_text raised
\* something else, the text is not JSON, it is JSON but not an object, it is
\* an object without "message", with an empty "message", with a message; or
\* the task was cancelled.
Frames ==
  {"disconnect", "receive_error", "malformed", "not_object", "no_message",
   "empty_message", "message", "cancelled"}

\* Lines 314-327: one frame is received; the loop continues on an empty or
\* missing message and otherwise enters orchestrator.process_query.
Receive(c, frame) ==
  /\ handler[c].pc = "receiving"
  /\ handler[c].frames < MaxFrames
  /\ CASE frame \in {"disconnect", "receive_error", "malformed", "not_object"} ->
            Disconnect(c)
       [] frame = "cancelled" -> Escapes(c)
       [] frame \in {"no_message", "empty_message"} ->
            /\ handler' = [handler EXCEPT ![c].frames = @ + 1]
            /\ active_connections' = active_connections
       [] frame = "message" ->
            /\ handler' = [handler EXCEPT ![c].frames = @ + 1, ![c].calls = @ + 1,
                                          ![c].pc = "processing"]
            /\ active_connections' = active_connections
  /\ last' = WsStep(c, "receive", frame)
  /\ UNCHANGED <<request_history, clock, pq, mq, ncalls>>

\* Lines 322-338: process_query returns its response (it catches every
\* Exception itself) and the reply is serialised, which raises when the
\* response does not serialise; or the task is cancelled meanwhile.
Process(c, outcome) ==
  /\ handler[c].pc = "processing"
  /\ CASE outcome = "serialised" ->
            /\ handler' = [handler EXCEPT ![c].pc = "sending"]
            /\ active_connections' = active_connections
       [] outcome = "dumps_error" -> Disconnect(c)
       [] outcome = "cancelled" -> Escapes(c)
  /\ last' = WsStep(c, "process", outcome)
  /\ UNCHANGED <<request_history, clock, pq, mq, ncalls>>

\* manager.send_personal_message (lines 58-59, 330-339): send_text returns,
\* raises (the client is gone) or is cancelled.
Send(c, outcome) ==
  /\ handler[c].pc = "sending"
  /\ CASE outcome = "sent" ->
            /\ handler' = [handler EXCEPT ![c].replies = @ + 1, ![c].pc = "receiving"]
            /\ active_connections' = active_connections
       [] outcome = "send_error" -> Disconnect(c)
       [] outcome = "cancelled" -> Escapes(c)
  /\ last' = WsStep(c, "send", outcome)
  /\ UNCHANGED <<request_history, clock, pq, mq, ncalls>>

NextWs ==
  \/ \E c \in Connections, outcome \in {"accepted", "accept_error", "cancelled"} :
       Connect(c, outcome)
  \/ \E c \in Connections, frame \in Frames : Receive(c, frame)
  \/ \E c \in Connections, outcome \in {"serialised", "dumps_error", "cancelled"} :
       Process(c, outcome)
  \/ \E c \in Connections, outcome \in {"sent", "send_error", "cancelled"} :
       Send(c, outcome)

SpecWs == Init /\ [][NextWs]_vars

\* The connections whose websocket_endpoint has accepted and not ended.
Running == {c \in Connections : handler[c].pc \in {"receiving", "processing", "sending"}}

\* C30 as stated: active_connections holds exactly the accepted connections
\* whose handler is still running, each once (a connection is added on
\* accept and removed when its handler ends, however it ends); and a frame
\* that is a JSON object whose "message" is empty or missing leads to no
\* process_query call and no reply, the connection staying open.
C30_ActiveConnections ==
  /\ {active_connections[i] : i \in 1..Len(active_connections)} = Running
  /\ Len(active_connections) = Cardinality(Running)
  /\ ( /\ last.kind = "ws"
       /\ last.step = "receive"
       /\ last.what \in {"no_message", "empty_message"} )
     => /\ last.conn \in Running
        /\ handler[last.conn].pc = "receiving"
        /\ handler[last.conn].calls = last.before.calls
        /\ handler[last.conn].replies = last.before.replies

====
